---- MODULE Spec2Model ----
(***************************************************************************)
(* GolangSizer: bicubic (Mitchell-Netravali) image resizer.                *)
(*                                                                         *)
(* The packages modelled are internal/interpolation (CubicWeight,          *)
(* ClampUint8, ClampUint16, InterpolateBicubic, ...), internal/validator   *)
(* (ValidateDimensions, ValidateResizeRatio) and internal/resizer          *)
(* (NewResizer, Resize and its four sampling paths), pkg/imageio           *)
(* (LoadImage, SaveImage) and the command line's run.                      *)
(*                                                                         *)
(* Numbers.  The Go code computes in float64.  The model computes the same *)
(* expressions over exact rationals: a float64 value is a rational, every  *)
(* operation is the real-number operation, rounding of the last bit is not *)
(* modelled.  TLC's integers are 32 bits wide and the products             *)
(* pixel * weight * weight are not, so numerators are kept as little-endian*)
(* sequences of limbs (Wide numbers).                                      *)
(***************************************************************************)
EXTENDS Integers, Sequences, FiniteSets, TLC

VARIABLES
    mathIn,     \* kernel-math / validator call under test: the function and its arguments
    mathOut,    \* what that call returned (NoOut before the call)
    src,        \* the source image.Image handed to Resize
    cfg,        \* the resizer.Config handed to NewResizer
    resizer,    \* the *Resizer NewResizer returned (None: nil)
    pc,         \* position of the caller / of Resize
    path,       \* dispatch path taken by Resize: "RGBA", "RGBA64", "Gray", "Gray16"
    dst,        \* destination buffer of the running Resize (None: not allocated)
    x,          \* inner loop counter of resizeRGBA/... (column)
    y,          \* outer loop counter (row)
    reads,      \* source coordinates read by src.At during the latest sample
    samples,    \* number of sample calls made by the running Resize
    writes,     \* per destination cell, the number of dst.Set calls made on it
    ret,        \* what Resize (or NewResizer, on failure) returned: [img, err]
    cli,        \* the *Config parseFlags handed to run (None: no command line)
    world,      \* the filesystem before run: the input file, the output path's state
    fs,         \* the output directory and the output file as they are now
    runRet      \* what run returned: [err, step], step the call it returned from

mathVars == <<mathIn, mathOut>>
engineVars == <<src, cfg, resizer, pc, path, dst, x, y, reads, samples, writes, ret>>
engineVarsButPc == <<src, cfg, resizer, path, dst, x, y, reads, samples, writes, ret>>
cliVars == <<cli, world, fs, runRet>>
vars == <<mathIn, mathOut, src, cfg, resizer, pc, path, dst, x, y, reads, samples, writes, ret,
          cli, world, fs, runRet>>

\* Go's nil, as an error sentinel or a tag
Nil == "nil"
\* an absent value (a nil pointer, a call that has not returned) is <<>>, a
\* present value v is <<v>>
None == <<>>
Some(v) == <<v>>
NoOut == None
\* no destination buffer, no cell written
NoWrites == [cell \in {} |-> 0]

(***************************************************************************)
(* Bounds of the model.                                                    *)
(***************************************************************************)
\* limbs of a Wide number, and the base of one limb
Limbs == 6
WideBase == 1024
\* denominators 1..MaxDen of the rational arguments fed to the kernel math
MaxDen == 8
\* one-pixel-wide (or -high) images and targets: source side * target side <= MaxDim
MaxDim == 17
\* longest side of the images and targets with two long sides
MaxSquare == 3
\* longest side of the images whose every tile is tried
MaxTiny == 2
\* largest maxIndex of GetSafeIndex and maxBound of CalculateKernelBounds tried
MaxBound == 4

(***************************************************************************)
(* Wide integers: <<l_1, ..., l_Limbs>>, value = SUM l_i * WideBase^(i-1). *)
(* Normal form: l_i in 0..WideBase-1 for i < Limbs; the top limb carries   *)
(* the sign.                                                               *)
(***************************************************************************)
RECURSIVE WCarry(_, _, _)
WCarry(w, i, c) ==
    LET v == (IF i <= Len(w) THEN w[i] ELSE 0) + c
    IN  IF i = Limbs THEN <<v>>
        ELSE <<v % WideBase>> \o WCarry(w, i + 1, v \div WideBase)

\* the normal form of limbs that may be short, negative or beyond the base
WNorm(w) == WCarry(w, 1, 0)

WFromInt(i) == WNorm(<<i>>)

\* a * b, for integers |a| < 2^20 and |b| < 2^20
WMulInts(a, b) == WNorm(<<(a % WideBase) * b, (a \div WideBase) * b>>)

\* ka * a + kb * b, for normal-form a, b and integers |ka|, |kb| < 2^16
WLin(a, ka, b, kb) == WNorm([k \in 1..Limbs |-> ka * a[k] + kb * b[k]])

WSign(a) ==
    IF a[Limbs] < 0 THEN -1
    ELSE IF \A k \in 1..Limbs : a[k] = 0 THEN 0
    ELSE 1

\* floor(a / k) for a normal-form a and an integer 0 < k < 2^21: short division,
\* from the top limb down
RECURSIVE WDivLimbs(_, _, _, _)
WDivLimbs(a, k, i, rem) ==
    IF i = 0 THEN <<>>
    ELSE LET cur == rem * WideBase + a[i]
         IN  WDivLimbs(a, k, i - 1, cur % k) \o <<cur \div k>>

WDivSmall(a, k) == WDivLimbs(a, k, Limbs, 0)

\* the value of a Wide number known to fit an int
RECURSIVE WHorner(_, _)
WHorner(a, i) ==
    IF i = Limbs \/ \A k \in i + 1 .. Limbs : a[k] = 0 THEN a[i]
    ELSE a[i] + WideBase * WHorner(a, i + 1)

WToInt(a) == WHorner(a, 1)

(***************************************************************************)
(* float64 values.  Rat(n, d) is n/d with d > 0, for arguments and         *)
(* weights; Real(num, d1, d2) is num/(d1*d2) with a Wide numerator, for    *)
(* interpolated channel values.                                            *)
(***************************************************************************)
Rat(n, d) == [n |-> n, d |-> d]

Real(num, d1, d2) == [num |-> num, d1 |-> d1, d2 |-> d2]

RatToReal(r) == Real(WFromInt(r.n), r.d, 1)

IntToReal(i) == Real(WFromInt(i), 1, 1)

\* value < 0.0
RealNegative(v) == WSign(v.num) < 0

\* value > m, for an integer 0 <= m < 2^16
RealGreater(v, m) == WSign(WLin(v.num, 1, WMulInts(v.d1, v.d2), 0 - m)) > 0

\* the integer conversion uintN(value + 0.5), for value >= 0: truncation
\* floor((2 num + d1 d2) / (2 d1 d2)) = floor(floor((2 num + d1 d2) / (2 d1)) / d2)
TruncPlusHalf(v) ==
    WToInt(WDivSmall(WDivSmall(WLin(v.num, 2, WMulInts(v.d1, v.d2), 1), 2 * v.d1), v.d2))

(***************************************************************************)
(* package interpolation                                                   *)
(***************************************************************************)
KernelSize == 4
MaxUint16 == 65535
MaxUint8 == 255

ErrInvalidCoordinate == "coordinate out of bounds"
ErrInvalidChannel == "invalid color channel value"

\* const b = 1.0 / 3.0 and const c = 1.0 / 3.0: bNum / CoefDen and cNum / CoefDen
CoefDen == 3
bNum == 1
cNum == 1

\* Faulty variant: the inner piece of the Catmull-Rom kernel (B = 0, C = 1/2),
\* which is 1 at distance 0
CatmullRomInner(m, d) == 27 * m * m * m - 45 * m * m * d + 18 * d * d * d

\* numerator, over 6 * CoefDen * d^3, of the piece for |x| = m/d < 1
CubicInner(m, d) ==
      (12 * CoefDen - 9 * bNum - 6 * cNum) * m * m * m
    + (0 - 18 * CoefDen + 12 * bNum + 6 * cNum) * m * m * d
    + (6 * CoefDen - 2 * bNum) * d * d * d

\* Faulty variant: the outer piece of the Catmull-Rom kernel beside the inner
\* piece of the Mitchell-Netravali kernel
CatmullRomOuter(m, d) ==
    0 - 9 * m * m * m + 45 * m * m * d - 72 * m * d * d + 36 * d * d * d

\* numerator, over 6 * CoefDen * d^3, of the piece for 1 <= |x| = m/d < 2
CubicOuter(m, d) ==
      (0 - bNum - 6 * cNum) * m * m * m
    + (6 * bNum + 30 * cNum) * m * m * d
    + (0 - 12 * bNum - 48 * cNum) * m * d * d
    + (8 * bNum + 24 * cNum) * d * d * d

\* math.Abs
Abs(n) == IF n < 0 THEN 0 - n ELSE n

\* Faulty variant: CubicWeight without x = math.Abs(x)
CubicWeightSigned(xx) ==
    LET m == xx.n
        d == xx.d
        den == 6 * CoefDen * d * d * d
    IN  IF m < d THEN Rat(CubicInner(m, d), den)
        ELSE IF m < 2 * d THEN Rat(CubicOuter(m, d), den)
        ELSE Rat(0, den)

CubicWeight(xx) ==
    LET m == Abs(xx.n)
        d == xx.d
        den == 6 * CoefDen * d * d * d
    IN  IF m < d THEN Rat(CubicInner(m, d), den)
        ELSE IF m < 2 * d THEN Rat(CubicOuter(m, d), den)
        ELSE Rat(0, den)

\* Faulty variant: uint8(value), without the + 0.5
ClampUint8Truncating(value) ==
    IF RealNegative(value) THEN 0
    ELSE IF RealGreater(value, MaxUint8) THEN MaxUint8
    ELSE WToInt(WDivSmall(WDivSmall(value.num, value.d1), value.d2))

ClampUint8(value) ==
    IF RealNegative(value) THEN 0
    ELSE IF RealGreater(value, MaxUint8) THEN MaxUint8
    ELSE TruncPlusHalf(value)

ClampUint16(value) ==
    IF RealNegative(value) THEN 0
    ELSE IF RealGreater(value, MaxUint16) THEN MaxUint16
    ELSE TruncPlusHalf(value)

\* Faulty variant: GetSafeIndex without its upper bound
GetSafeIndexNoUpper(index, maxIndex) == IF index < 0 THEN 0 ELSE index

\* Faulty variant: the upper clamp one too far, maxIndex instead of maxIndex - 1
GetSafeIndexOffByOne(index, maxIndex) ==
    IF index < 0 THEN 0
    ELSE IF index >= maxIndex THEN maxIndex
    ELSE index

GetSafeIndex(index, maxIndex) ==
    IF index < 0 THEN 0
    ELSE IF index >= maxIndex THEN maxIndex - 1
    ELSE index

\* math.Floor of a Rat
Floor(r) == r.n \div r.d

\* Faulty variant: the span cut at the edges of the image
CalculateKernelBoundsClipped(center, maxBound) ==
    LET start == Floor(center) - 1
        end == start + KernelSize
    IN  IF center.n < 0 \/ center.n >= maxBound * center.d
        THEN [start |-> 0, end |-> 0, err |-> ErrInvalidCoordinate]
        ELSE [start |-> IF start < 0 THEN 0 ELSE start,
              end |-> IF end > maxBound THEN maxBound ELSE end,
              err |-> Nil]

CalculateKernelBounds(center, maxBound) ==
    LET halfKernel == KernelSize \div 2
        start == Floor(center) - halfKernel + 1
        end == start + KernelSize
    IN  IF center.n < 0 \/ center.n >= maxBound * center.d
        THEN [start |-> 0, end |-> 0, err |-> ErrInvalidCoordinate]
        ELSE IF end - start # KernelSize
        THEN [start |-> 0, end |-> 0, err |-> ErrInvalidCoordinate]
        ELSE [start |-> start, end |-> end, err |-> Nil]

\* Faulty variant: CubicWeight(float64(i) - dx), the window one tap off
TapShifted(i, dd) == CubicWeight(Rat(i * dd.d - dd.n, dd.d))

\* the weight of kernel column (or row) i in 0..3: CubicWeight(float64(i-1) - dx)
Tap(i, dd) == CubicWeight(Rat((i - 1) * dd.d - dd.n, dd.d))

\* the weights of the four kernel columns (or rows), as numerators over their
\* common denominator
Taps(dd) == [i \in 1..KernelSize |-> Tap(i - 1, dd).n] \o <<>>

\* rowSum of one kernel row: rowSum += pixels[j][i] * wx for i = 0..3, as a Wide
\* numerator over the denominator of the wx; lo and hi accumulate the two limbs
\* of the products
RECURSIVE RowSum(_, _, _, _, _)
RowSum(row, wx, i, lo, hi) ==
    IF i = KernelSize THEN WNorm(<<lo, hi>>)
    ELSE RowSum(row, wx, i + 1,
                lo + row[i + 1] * (wx[i + 1] % WideBase),
                hi + row[i + 1] * (wx[i + 1] \div WideBase))

\* result += rowSum * wy for j = 0..3, as the limbs of a Wide numerator
RECURSIVE KernelSum(_, _, _, _, _)
KernelSum(pixels, wx, wy, j, acc) ==
    IF j = KernelSize THEN WNorm(acc)
    ELSE LET rowSum == RowSum(pixels[j + 1], wx, 0, 0, 0)
         IN  KernelSum(pixels, wx, wy, j + 1,
                       [k \in 1..Limbs |-> acc[k] + rowSum[k] * wy[j + 1]] \o <<>>)

\* pixels[j+1][i+1] is the Go pixels[j][i].  The samples are finite (they come
\* from integers), so is the result: the NaN/Inf assertion cannot fire.
InterpolateBicubic(pixels, dx, dy) ==
    IF dx.n < 0 \/ dx.n > dx.d \/ dy.n < 0 \/ dy.n > dy.d
    THEN [val |-> IntToReal(0), err |-> ErrInvalidCoordinate]
    ELSE [val |-> Real(KernelSum(pixels, Taps(dx), Taps(dy), 0, WFromInt(0)),
                       Tap(0, dx).d, Tap(0, dy).d),
          err |-> Nil]

(***************************************************************************)
(* package validator                                                       *)
(***************************************************************************)
MaxImageDimension == 65535
MinImageDimension == 1

ErrInvalidDimension == "dimension out of valid range"

\* int64(width) * int64(height) > int64(MaxImageDimension * MaxImageDimension)
PixelsExceedLimit(width, height) ==
    WSign(WLin(WMulInts(width, height), 1,
               WMulInts(MaxImageDimension, MaxImageDimension), -1)) > 0

\* an error: the sentinel it wraps (errors.Is) and its message; NoError is nil
NoError == [is |-> Nil, msg |-> <<>>]

\* fmt.Errorf("prefix: %w", err)
Wrap(prefix, err) == [is |-> err.is, msg |-> <<prefix>> \o err.msg]

\* Faulty variant: >= MaxImageDimension, refusing the largest dimension
ValidateDimensionsStrict(width, height) ==
    IF width < MinImageDimension \/ height < MinImageDimension
    THEN [is |-> ErrInvalidDimension, msg |-> <<"dimensions must be >= min">>]
    ELSE IF width >= MaxImageDimension \/ height >= MaxImageDimension
    THEN [is |-> ErrInvalidDimension, msg |-> <<"dimensions must be <= max">>]
    ELSE NoError

ValidateDimensions(width, height) ==
    IF width < MinImageDimension \/ height < MinImageDimension
    THEN [is |-> ErrInvalidDimension, msg |-> <<"dimensions must be >= min">>]
    ELSE IF width > MaxImageDimension \/ height > MaxImageDimension
    THEN [is |-> ErrInvalidDimension, msg |-> <<"dimensions must be <= max">>]
    ELSE IF PixelsExceedLimit(width, height)
    THEN [is |-> ErrInvalidDimension, msg |-> <<"total pixels exceed safe limit">>]
    ELSE NoError

\* const maxScaleFactor = 16.0 and const minScaleFactor = 0.0625 = 1 / minScaleDen
maxScaleFactor == 16
minScaleDen == 16

\* Faulty variant: >= and <=, refusing the factors 16 and 1/16 themselves
RatioOutOfRangeStrict(new, original) ==
    new >= maxScaleFactor * original \/ new * minScaleDen <= original

\* widthRatio = float64(newWidth) / float64(originalWidth), compared without dividing
RatioOutOfRange(new, original) ==
    new > maxScaleFactor * original \/ new * minScaleDen < original

ValidateResizeRatio(originalWidth, originalHeight, newWidth, newHeight) ==
    IF ValidateDimensions(originalWidth, originalHeight) # NoError
    THEN ValidateDimensions(originalWidth, originalHeight)
    ELSE IF ValidateDimensions(newWidth, newHeight) # NoError
    THEN ValidateDimensions(newWidth, newHeight)
    ELSE IF RatioOutOfRange(newWidth, originalWidth)
    THEN [is |-> ErrInvalidDimension, msg |-> <<"width scale factor out of range">>]
    ELSE IF RatioOutOfRange(newHeight, originalHeight)
    THEN [is |-> ErrInvalidDimension, msg |-> <<"height scale factor out of range">>]
    ELSE NoError

(***************************************************************************)
(* Images.  The resizer sees its source only through image.Image:          *)
(* Bounds(), ColorModel() and At(x, y).RGBA(), which returns four 16-bit   *)
(* alpha-premultiplied channels.  A source is its size, its colour model   *)
(* and a 2x2 tile of such pixels repeated over the image (every image of   *)
(* at most 2x2 pixels, periodic ones beyond); its bounds start at (0, 0),  *)
(* as those of every decoded image do.                                     *)
(***************************************************************************)
ColorModels == {"RGBA", "NRGBA", "RGBA64", "NRGBA64", "Gray", "Gray16", "YCbCr"}

Grey8(v) == <<257 * v, 257 * v, 257 * v, 65535>>
Grey16(v) == <<v, v, v, 65535>>
Colour8(r, g, b, a) == <<257 * r, 257 * g, 257 * b, 257 * a>>

\* what At(x, y).RGBA() can return for an image of each colour model: three
\* pixels of each (first the darkest, last the brightest)
Palette(model) ==
    CASE model = "Gray" -> <<Grey8(0), Grey8(128), Grey8(255)>>
      [] model = "Gray16" -> <<Grey16(0), Grey16(40000), Grey16(65535)>>
      [] model = "RGBA" -> <<Colour8(0, 0, 0, 0), Colour8(128, 64, 0, 128),
                             Colour8(255, 255, 255, 255)>>
      [] model = "NRGBA" -> <<Colour8(0, 0, 0, 0), <<32896, 16512, 0, 32896>>,
                              Colour8(255, 255, 255, 255)>>
      [] model = "RGBA64" -> <<<<0, 0, 0, 0>>, <<40000, 20000, 1, 50000>>,
                               <<65535, 65535, 65535, 65535>>>>
      [] model = "NRGBA64" -> <<<<0, 0, 0, 0>>, <<30517, 15258, 0, 50000>>,
                                <<65535, 65535, 65535, 65535>>>>
      [] model = "YCbCr" -> <<Colour8(0, 0, 0, 255), Colour8(200, 100, 50, 255),
                              Colour8(255, 255, 255, 255)>>

TileCells == (0..1) \X (0..1)

Tiles(model) == [TileCells -> {Palette(model)[k] : k \in 1..3}]

\* a solid image, and one whose neighbouring pixels all differ
SolidTile(model) == [cell \in TileCells |-> Palette(model)[2]]
CheckerTile(model) ==
    [cell \in TileCells |-> IF cell[1] = cell[2] THEN Palette(model)[1] ELSE Palette(model)[3]]

Image(w, h, model, tile) == [nil |-> FALSE, W |-> w, H |-> h, Model |-> model, Tile |-> tile]

NilImage == [nil |-> TRUE]

\* src.At(px, py).RGBA()
At(img, px, py) == img.Tile[<<px % 2, py % 2>>]

\* Faulty variant: width and height exchanged
NewBufferTransposed(kind, w, h) ==
    [Kind |-> kind, W |-> h, H |-> w,
     Pix |-> [cell \in (0..h - 1) \X (0..w - 1) |->
                 IF kind \in {"RGBA", "RGBA64"} THEN <<0, 0, 0, 0>> ELSE <<0>>]]

\* a destination buffer as image.NewRGBA, NewRGBA64, NewGray, NewGray16 make it:
\* every channel zero
NewBuffer(kind, w, h) ==
    [Kind |-> kind, W |-> w, H |-> h,
     Pix |-> [cell \in (0..w - 1) \X (0..h - 1) |->
                 IF kind \in {"RGBA", "RGBA64"} THEN <<0, 0, 0, 0>> ELSE <<0>>]]

(***************************************************************************)
(* package resizer                                                         *)
(***************************************************************************)
ErrNilImage == "nil image provided"

Config(w, h, q) == [TargetWidth |-> w, TargetHeight |-> h, Quality |-> q]

\* returns the *Resizer (None: nil) and the error
NewResizer(c) ==
    IF ValidateDimensions(c.TargetWidth, c.TargetHeight) # NoError
    THEN [r |-> None,
          err |-> Wrap("invalid config", ValidateDimensions(c.TargetWidth, c.TargetHeight))]
    ELSE [r |-> Some([config |-> IF c.Quality < 0 \/ c.Quality > 100
                                  THEN [c EXCEPT !.Quality = 100]
                                  ELSE c]),
          err |-> NoError]

\* the switch on src.ColorModel()
Dispatch(model) ==
    CASE model \in {"RGBA", "NRGBA"} -> "RGBA"
      [] model \in {"RGBA64", "NRGBA64"} -> "RGBA64"
      [] model = "Gray" -> "Gray"
      [] model = "Gray16" -> "Gray16"
      [] OTHER -> "RGBA"

\* the checks of Resize before it dispatches: the error it returns, or NoError
ResizeChecks(r, img) ==
    IF img.nil THEN [is |-> ErrNilImage, msg |-> <<ErrNilImage>>]
    ELSE IF ValidateDimensions(img.W, img.H) # NoError
    THEN Wrap("invalid source dimensions", ValidateDimensions(img.W, img.H))
    ELSE IF ValidateResizeRatio(img.W, img.H, r.config.TargetWidth, r.config.TargetHeight)
            # NoError
    THEN Wrap("invalid resize ratio",
              ValidateResizeRatio(img.W, img.H, r.config.TargetWidth, r.config.TargetHeight))
    ELSE NoError

\* Faulty variant: the centre of pixel i taken at its far edge, (i + 1) * ratio
SrcCoordFarEdge(i, srcSize, targetSize) == Rat((i + 1) * srcSize, targetSize)

\* srcX := (float64(x) + 0.5) * xRatio, with xRatio := float64(srcWidth) / float64(TargetWidth)
SrcCoord(i, srcSize, targetSize) == Rat((2 * i + 1) * srcSize, 2 * targetSize)

\* int(x): truncation toward zero
Trunc(r) == IF r.n >= 0 THEN r.n \div r.d ELSE 0 - ((0 - r.n) \div r.d)

\* dx := x - float64(int(x))
Frac(r) == Rat(r.n - Trunc(r) * r.d, r.d)

\* the 4x4 window of channel ch: pixels[kernelY][kernelX], each sample the
\* 16-bit channel divided by scale (256 for r32 >> 8, 1 for r32)
Gather(img, bx, by, width, height, ch, scale) ==
    [ky \in 1..(by.end - by.start) |->
        [kx \in 1..(bx.end - bx.start) |->
            At(img, GetSafeIndex(bx.start + kx - 1, width),
                    GetSafeIndex(by.start + ky - 1, height))[ch] \div scale]]

\* the coordinates handed to src.At while gathering
GatherReads(bx, by, width, height) ==
    {<<GetSafeIndex(sx, width), GetSafeIndex(sy, height)>> :
        sx \in bx.start .. bx.end - 1, sy \in by.start .. by.end - 1}

\* Faulty variant: a failed coordinate check answered with a default pixel and
\* no error
SampleFailedLenient(e, n) == [px |-> [k \in 1..n |-> 0], err |-> Nil, reads |-> {}]

SampleFailed(e, n) == [px |-> [k \in 1..n |-> 0], err |-> e, reads |-> {}]

\* the final conversion of a sample function: interpolation.ClampUint8 on the
\* 8-bit paths, interpolation.ClampUint16 on the 16-bit paths
Quantize(depth, value) == IF depth = 8 THEN ClampUint8(value) ELSE ClampUint16(value)

\* the body shared by the four sample functions: kernel bounds on each axis,
\* the fractional offsets, then per channel the window and its interpolation,
\* the first error returned
SampleChannels(img, sx, sy, width, height, chans, scale, depth) ==
    LET bx == CalculateKernelBounds(sx, width)
        by == CalculateKernelBounds(sy, height)
        dx == Frac(sx)
        dy == Frac(sy)
        n == Len(chans)
        val == [k \in 1..n |->
                   InterpolateBicubic(Gather(img, bx, by, width, height, chans[k], scale),
                                      dx, dy)]
        bad == {k \in 1..n : val[k].err # Nil}
    IN  IF bx.err # Nil THEN SampleFailed(bx.err, n)
        ELSE IF by.err # Nil THEN SampleFailed(by.err, n)
        ELSE IF bad # {}
        THEN [px |-> [k \in 1..n |-> 0],
              err |-> val[CHOOSE k \in bad : \A o \in bad : k <= o].err,
              reads |-> GatherReads(bx, by, width, height)]
        ELSE [px |-> [k \in 1..n |-> Quantize(depth, val[k].val)],
              err |-> Nil,
              reads |-> GatherReads(bx, by, width, height)]

sampleRGBA(img, sx, sy, width, height) ==
    SampleChannels(img, sx, sy, width, height, <<1, 2, 3, 4>>, 256, 8)

sampleRGBA64(img, sx, sy, width, height) ==
    SampleChannels(img, sx, sy, width, height, <<1, 2, 3, 4>>, 1, 16)

sampleGray(img, sx, sy, width, height) ==
    SampleChannels(img, sx, sy, width, height, <<1>>, 256, 8)

sampleGray16(img, sx, sy, width, height) ==
    SampleChannels(img, sx, sy, width, height, <<1>>, 1, 16)

\* the sample function each of resizeRGBA, resizeRGBA64, resizeGray, resizeGray16 calls
\* Faulty variant: a sample that keeps state between calls, every second call
\* made with the horizontal offset dx of a pixel centre on the grid (0)
SampleOnCarrying(kind, img, sx, sy, width, height) ==
    LET cx == IF samples % 2 = 0 THEN sx ELSE Rat(Trunc(sx) * sx.d, sx.d)
    IN  CASE kind = "RGBA" -> sampleRGBA(img, cx, sy, width, height)
          [] kind = "RGBA64" -> sampleRGBA64(img, cx, sy, width, height)
          [] kind = "Gray" -> sampleGray(img, cx, sy, width, height)
          [] kind = "Gray16" -> sampleGray16(img, cx, sy, width, height)

SampleOn(kind, img, sx, sy, width, height) ==
    CASE kind = "RGBA" -> sampleRGBA(img, sx, sy, width, height)
      [] kind = "RGBA64" -> sampleRGBA64(img, sx, sy, width, height)
      [] kind = "Gray" -> sampleGray(img, sx, sy, width, height)
      [] kind = "Gray16" -> sampleGray16(img, sx, sy, width, height)

(***************************************************************************)
(* Functions under test: one call of one function on arguments drawn from  *)
(* bounded sets.                                                           *)
(***************************************************************************)
\* x = n/d for every d in 1..MaxDen and every n/d in [-3, 3]
CubicArgs == UNION {{Rat(n, d) : n \in -3 * d .. 3 * d} : d \in 1..MaxDen}

\* channel values around 0, around each maximum, and of large magnitude
ClampWindow(centre, d) == {Rat(n, d) : n \in (centre - 2) * d .. (centre + 2) * d}

ClampArgs ==
    UNION {ClampWindow(0, d) \cup ClampWindow(MaxUint8, d) \cup ClampWindow(MaxUint16, d)
           : d \in 1..MaxDen}
    \cup {Rat(n, 1) : n \in {-2147483647, -1000000, 1000000, 2147483647}}

\* indices from well below 0 to well beyond maxIndex, and of large magnitude
IndexArgs ==
    {[index |-> i, maxIndex |-> n] : i \in 0 - MaxBound - 2 .. 2 * MaxBound + 2, n \in 1..MaxBound}
    \cup {[index |-> i, maxIndex |-> n] :
            i \in {-2147483647, -65536, 65534, 65535, 65536, 2147483647},
            n \in {1, MaxImageDimension}}

\* centres n/d from -2 to maxBound + 2
BoundsArgs ==
    UNION {UNION {{[center |-> Rat(n, d), maxBound |-> b] : n \in -2 * d .. (b + 2) * d}
                  : d \in 1..MaxDen}
           : b \in 0..MaxBound}

\* a chequered gray image of every size up to MaxSquare, sampled at centres
\* k/2 from -1 to one beyond each side
SampleArgs ==
    UNION {{[img |-> Image(z[1], z[2], "Gray", CheckerTile("Gray")),
             x |-> Rat(cx, 2), y |-> Rat(cy, 2)] :
               cx \in -2 .. 2 * z[1] + 2, cy \in -2 .. 2 * z[2] + 2}
           : z \in (1..MaxSquare) \X (1..MaxSquare)}

MathCalls ==
    {[op |-> "CubicWeight", arg |-> a] : a \in CubicArgs}
    \cup {[op |-> "ClampUint8", arg |-> a] : a \in ClampArgs}
    \cup {[op |-> "ClampUint16", arg |-> a] : a \in ClampArgs}
    \cup {[op |-> "GetSafeIndex", arg |-> a] : a \in IndexArgs}
    \cup {[op |-> "CalculateKernelBounds", arg |-> a] : a \in BoundsArgs}
    \cup {[op |-> "sampleGray", arg |-> a] : a \in SampleArgs}

EngineIdle ==
    /\ src = None
    /\ cfg = None
    /\ resizer = None
    /\ pc = "idle"
    /\ path = Nil
    /\ dst = None
    /\ x = 0
    /\ y = 0
    /\ reads = {}
    /\ samples = 0
    /\ writes = NoWrites
    /\ ret = None

\* no command line: the packages are used as a library
CliIdle ==
    /\ cli = None
    /\ world = None
    /\ fs = None
    /\ runRet = None

MathInit ==
    /\ mathIn \in MathCalls
    /\ mathOut = NoOut
    /\ EngineIdle
    /\ CliIdle

CallCubicWeight ==
    /\ mathIn.op = "CubicWeight"
    /\ mathOut = NoOut
    /\ mathOut' = Some(CubicWeight(mathIn.arg))
    /\ UNCHANGED <<mathIn, engineVars, cliVars>>

CallClampUint8 ==
    /\ mathIn.op = "ClampUint8"
    /\ mathOut = NoOut
    /\ mathOut' = Some(ClampUint8(RatToReal(mathIn.arg)))
    /\ UNCHANGED <<mathIn, engineVars, cliVars>>

CallClampUint16 ==
    /\ mathIn.op = "ClampUint16"
    /\ mathOut = NoOut
    /\ mathOut' = Some(ClampUint16(RatToReal(mathIn.arg)))
    /\ UNCHANGED <<mathIn, engineVars, cliVars>>

CallGetSafeIndex ==
    /\ mathIn.op = "GetSafeIndex"
    /\ mathOut = NoOut
    /\ mathOut' = Some(GetSafeIndex(mathIn.arg.index, mathIn.arg.maxIndex))
    /\ UNCHANGED <<mathIn, engineVars, cliVars>>

CallCalculateKernelBounds ==
    /\ mathIn.op = "CalculateKernelBounds"
    /\ mathOut = NoOut
    /\ mathOut' = Some(CalculateKernelBounds(mathIn.arg.center, mathIn.arg.maxBound))
    /\ UNCHANGED <<mathIn, engineVars, cliVars>>

\* sampleGray(src, x, y, width, height) on the width and height of src
CallSampleGray ==
    /\ mathIn.op = "sampleGray"
    /\ mathOut = NoOut
    /\ mathOut' = Some(sampleGray(mathIn.arg.img, mathIn.arg.x, mathIn.arg.y,
                                  mathIn.arg.img.W, mathIn.arg.img.H))
    /\ UNCHANGED <<mathIn, engineVars, cliVars>>

MathNext ==
    \/ CallCubicWeight
    \/ CallClampUint8
    \/ CallClampUint16
    \/ CallGetSafeIndex
    \/ CallCalculateKernelBounds
    \/ CallSampleGray

SpecMath == MathInit /\ [][MathNext]_vars

Called(op) == mathIn.op = op /\ mathOut # NoOut

(***************************************************************************)
(* A caller of the library: NewResizer(cfg), then Resize(src) on the       *)
(* Resizer it got.  Resize runs its checks and allocates the destination   *)
(* (ResizeEnter), then one iteration of the pixel loop per step            *)
(* (ResizeStep), then returns the buffer (ResizeReturn).                   *)
(***************************************************************************)
\* sides of a source and of a target that are both one pixel wide, or both one
\* pixel high: every pair up to the scale factors 16 and 17, 1/16 and 1/17
StripSides == {p \in (0..MaxDim) \X (0..MaxDim) : p[1] * p[2] <= MaxDim}

SquareSizes == (2..MaxSquare) \X (2..MaxSquare)

TinySizes == (1..MaxTiny) \X (1..MaxTiny)

\* target sizes at and beyond the limits of ValidateDimensions
ExtremeTargets ==
    {<<-1, 1>>, <<0, 100>>, <<100, 0>>, <<65535, 1>>, <<1, 65535>>, <<65535, 65535>>,
     <<65536, 1>>, <<1, 65536>>, <<65536, 65536>>}

\* source sizes beyond the limit of ValidateDimensions
ExtremeSources == {<<65536, 1>>, <<1, 65536>>, <<65536, 65536>>}

SweepImages(size) ==
    UNION {{Image(size[1], size[2], m, t) : t \in {SolidTile(m), CheckerTile(m)}} :
           m \in ColorModels}

AllImages(size) ==
    UNION {{Image(size[1], size[2], m, t) : t \in Tiles(m)} : m \in ColorModels}

Request(img, c) == [src |-> img, cfg |-> c]

Requests ==
    \* rows to rows and columns to columns, a solid and a chequered image of
    \* every colour model
    UNION {{Request(i, Config(p[2], 1, 100)) : i \in SweepImages(<<p[1], 1>>)}
           : p \in StripSides}
    \cup UNION {{Request(i, Config(1, p[2], 100)) : i \in SweepImages(<<1, p[1]>>)}
           : p \in StripSides}
    \* images and targets with two sides of 2..MaxSquare
    \cup {Request(i, Config(t[1], t[2], 100)) :
        i \in UNION {SweepImages(z) : z \in SquareSizes}, t \in SquareSizes}
    \* every image of up to MaxTiny x MaxTiny pixels, to one pixel
    \cup {Request(i, Config(1, 1, 100)) : i \in UNION {AllImages(z) : z \in TinySizes}}
    \* sizes at the limits
    \cup {Request(i, Config(t[1], t[2], 100)) :
        i \in SweepImages(<<1, 1>>) \cup SweepImages(<<0, 0>>), t \in ExtremeTargets}
    \cup {Request(i, Config(t[1], t[2], 100)) :
        i \in UNION {SweepImages(z) : z \in ExtremeSources},
        t \in {<<65535, 1>>, <<1, 65535>>, <<4096, 4096>>, <<16, 1>>}}
    \* the quality hint, a nil image
    \cup {Request(Image(1, 1, "Gray", SolidTile("Gray")), Config(1, 1, q)) :
        q \in {-1, 0, 50, 100, 101}}
    \cup {Request(NilImage, Config(t[1], t[2], 100)) : t \in {<<1, 1>>, <<0, 1>>}}
    \* 4x4 solid gray 128 to 8x8, 10x10 to 170x170
    \cup {Request(Image(4, 4, "Gray", SolidTile("Gray")), Config(8, 8, 100))}
    \cup {Request(i, Config(170, 170, 100)) : i \in SweepImages(<<10, 10>>)}

MathIdle ==
    /\ mathIn = None
    /\ mathOut = NoOut

Init ==
    /\ \E req \in Requests :
        /\ src = req.src
        /\ cfg = req.cfg
    /\ resizer = None
    /\ pc = "start"
    /\ path = Nil
    /\ dst = None
    /\ x = 0
    /\ y = 0
    /\ reads = {}
    /\ samples = 0
    /\ writes = NoWrites
    /\ ret = None
    /\ MathIdle
    /\ CliIdle

CallNewResizer ==
    /\ pc = "start"
    /\ resizer' = NewResizer(cfg).r
    /\ IF NewResizer(cfg).err # NoError
       THEN /\ ret' = Some([img |-> None, err |-> NewResizer(cfg).err])
            /\ pc' = "done"
       ELSE /\ ret' = ret
            /\ pc' = "ready"
    /\ UNCHANGED <<src, cfg, path, dst, x, y, reads, samples, writes, mathVars, cliVars>>

\* Resize up to the dispatch, and resizeRGBA / resizeRGBA64 / resizeGray /
\* resizeGray16 up to their loop
ResizeEnter ==
    /\ pc = "ready"
    /\ LET r == resizer[1]
           e == ResizeChecks(r, src)
           kind == Dispatch(src.Model)
           e2 == ValidateDimensions(r.config.TargetWidth, r.config.TargetHeight)
       IN  IF e # NoError
           THEN /\ ret' = Some([img |-> None, err |-> e])
                /\ pc' = "done"
                /\ UNCHANGED <<path, dst, writes>>
           ELSE IF e2 # NoError
           THEN /\ ret' = Some([img |-> None, err |-> e2])
                /\ pc' = "done"
                /\ path' = kind
                /\ UNCHANGED <<dst, writes>>
           ELSE /\ path' = kind
                /\ dst' = Some(NewBuffer(kind, r.config.TargetWidth, r.config.TargetHeight))
                /\ writes' = [cell \in (0..r.config.TargetWidth - 1)
                                        \X (0..r.config.TargetHeight - 1) |-> 0]
                /\ pc' = "loop"
                /\ ret' = ret
    /\ x' = 0
    /\ y' = 0
    /\ UNCHANGED <<src, cfg, resizer, reads, samples, mathVars, cliVars>>

\* Faulty variant: the row counter advancing by two at the end of a row
NextYSkipping(col, row, tw) == IF col + 1 < tw THEN row ELSE row + 2

\* the loop counters after the iteration at (col, row): x++ within the row,
\* then y++ and x := 0
NextX(col, tw) == IF col + 1 < tw THEN col + 1 ELSE 0
NextY(col, row, tw) == IF col + 1 < tw THEN row ELSE row + 1

\* one iteration of the inner loop: map (x, y) to the source, sample, write
ResizeStep ==
    /\ pc = "loop"
    /\ y < resizer[1].config.TargetHeight
    /\ LET tw == resizer[1].config.TargetWidth
           th == resizer[1].config.TargetHeight
           s == SampleOn(path, src, SrcCoord(x, src.W, tw), SrcCoord(y, src.H, th),
                         src.W, src.H)
       IN  /\ samples' = samples + 1
           /\ reads' = s.reads
           /\ IF s.err # Nil
              THEN /\ ret' = Some([img |-> None,
                                   err |-> [is |-> s.err, msg |-> <<"sampling failed", s.err>>]])
                   /\ pc' = "done"
                   /\ UNCHANGED <<dst, writes, x, y>>
              ELSE /\ dst' = Some([dst[1] EXCEPT !.Pix[<<x, y>>] = s.px])
                   /\ writes' = [writes EXCEPT ![<<x, y>>] = @ + 1]
                   /\ x' = NextX(x, tw)
                   /\ y' = NextY(x, y, tw)
                   /\ UNCHANGED <<ret, pc>>
    /\ UNCHANGED <<src, cfg, resizer, path, mathVars, cliVars>>

\* return dst, nil
ResizeReturn ==
    /\ pc = "loop"
    /\ y >= resizer[1].config.TargetHeight
    /\ ret' = Some([img |-> dst, err |-> NoError])
    /\ pc' = "done"
    /\ UNCHANGED <<src, cfg, resizer, path, dst, x, y, reads, samples, writes, mathVars, cliVars>>

Next ==
    \/ CallNewResizer
    \/ ResizeEnter
    \/ ResizeStep
    \/ ResizeReturn

Spec == Init /\ [][Next]_vars

(***************************************************************************)
(* The four resize methods called on their own: resizeRGBA, resizeRGBA64,  *)
(* resizeGray or resizeGray16 (src, srcWidth, srcHeight) on a Resizer that *)
(* NewResizer made, with the width and height of src, which Resize has not *)
(* checked here and which may be 0.                                        *)
(***************************************************************************)
MethodSides == (0..MaxTiny) \X (0..MaxTiny)

MethodImages ==
    UNION {{Image(z[1], z[2], m, CheckerTile(m)) : m \in ColorModels} : z \in MethodSides}

MethodCalls == {Request(i, Config(t[1], t[2], 100)) : i \in MethodImages, t \in {<<1, 1>>, <<2, 2>>}}

MethodInit ==
    /\ \E req \in MethodCalls :
        /\ src = req.src
        /\ cfg = req.cfg
        /\ resizer = NewResizer(req.cfg).r
    /\ pc = "method"
    /\ path = Nil
    /\ dst = None
    /\ x = 0
    /\ y = 0
    /\ reads = {}
    /\ samples = 0
    /\ writes = NoWrites
    /\ ret = None
    /\ MathIdle
    /\ CliIdle

\* the method up to its loop: the check of the target, the allocation
CallResizeMethod ==
    /\ pc = "method"
    /\ \E kind \in {"RGBA", "RGBA64", "Gray", "Gray16"} :
        LET r == resizer[1]
            e == ValidateDimensions(r.config.TargetWidth, r.config.TargetHeight)
        IN  /\ path' = kind
            /\ IF e # NoError
               THEN /\ ret' = Some([img |-> None, err |-> e])
                    /\ pc' = "done"
                    /\ UNCHANGED <<dst, writes>>
               ELSE /\ dst' = Some(NewBuffer(kind, r.config.TargetWidth, r.config.TargetHeight))
                    /\ writes' = [cell \in (0..r.config.TargetWidth - 1)
                                            \X (0..r.config.TargetHeight - 1) |-> 0]
                    /\ pc' = "loop"
                    /\ ret' = ret
    /\ x' = 0
    /\ y' = 0
    /\ UNCHANGED <<src, cfg, resizer, reads, samples, mathVars, cliVars>>

MethodNext ==
    \/ CallResizeMethod
    \/ ResizeStep
    \/ ResizeReturn

SpecMethods == MethodInit /\ [][MethodNext]_vars

(***************************************************************************)
(* Properties of the kernel math, under SpecMath.                          *)
(***************************************************************************)
\* the argument x = n/d of the CubicWeight call, and the weight it returned
WeightArg == mathIn.arg
WeightOut == mathOut[1]

\* C7 (as stated): CubicWeight(0) = 1.
C7_Original ==
    (Called("CubicWeight") /\ WeightArg.n = 0) => WeightOut.n = WeightOut.d

\* C7 (amended): CubicWeight(0) = (6 - 2B) / 6 = 8/9 for B = 1/3, not 1.
C7_WeightAtZero ==
    (Called("CubicWeight") /\ WeightArg.n = 0) => 9 * WeightOut.n = 8 * WeightOut.d

C7_Witness ==
    /\ Called("CubicWeight")
    /\ WeightArg = Rat(0, 3)
    /\ WeightOut = Rat(432, 486)

\* C8: CubicWeight(x) = 0 for every x with |x| >= 2, of either sign, and
\* CubicWeight(-x) = CubicWeight(x) for every x.
C8_ZeroOutsideAndEven ==
    Called("CubicWeight") =>
        /\ (WeightArg.n >= 2 * WeightArg.d \/ 0 - WeightArg.n >= 2 * WeightArg.d)
               => WeightOut.n = 0
        /\ WeightOut = CubicWeight(Rat(0 - WeightArg.n, WeightArg.d))

C8_Witness ==
    /\ Called("CubicWeight")
    /\ WeightArg = Rat(-17, 8)
    /\ WeightOut.n = 0

\* C9: CubicWeight is continuous at its piece boundaries.  At |x| = 1 the
\* inner and the outer polynomial have the same value, the one returned; at
\* |x| = 2 the outer polynomial is 0, the value returned; and the weights of
\* two arguments 1/d apart differ by at most 8/7 of 1/d (8/7 bounds the slope
\* of both polynomials), so arguments closer than 8.75e-10 on either side of a
\* boundary have weights less than 1e-9 apart.
C9_ContinuousAtBoundaries ==
    Called("CubicWeight") =>
        LET d == WeightArg.d
            m == Abs(WeightArg.n)
            next == CubicWeight(Rat(WeightArg.n + 1, d))
        IN  /\ m = d => /\ CubicInner(d, d) = CubicOuter(d, d)
                        /\ WeightOut.n = CubicInner(d, d)
            /\ m = 2 * d => /\ CubicOuter(2 * d, d) = 0
                            /\ WeightOut.n = 0
            /\ next.d = WeightOut.d
            /\ 7 * d * Abs(next.n - WeightOut.n) <= 8 * WeightOut.d

C9_Witness ==
    /\ Called("CubicWeight")
    /\ WeightArg = Rat(8, 8)
    /\ WeightOut.n = 512
    /\ CubicWeight(Rat(7, 8)).n > 512
    /\ CubicWeight(Rat(9, 8)).n < 512

\* the integer nearest to n/d, halves upward: floor(n/d + 1/2)
Nearest(r) == (r.n \div r.d) + (IF 2 * (r.n % r.d) >= r.d THEN 1 ELSE 0)

ClampInt(i, max) == IF i < 0 THEN 0 ELSE IF i > max THEN max ELSE i

\* C10: ClampUint8 and ClampUint16 return the integer nearest to the value
\* (value + 0.5 truncated) clamped into [0, max], max = 255 resp. 65535, and
\* never a value outside [0, max], whatever the magnitude of the input.
C10_ClampQuantize ==
    /\ Called("ClampUint8") =>
           /\ mathOut[1] = ClampInt(Nearest(mathIn.arg), 255)
           /\ mathOut[1] \in 0..255
    /\ Called("ClampUint16") =>
           /\ mathOut[1] = ClampInt(Nearest(mathIn.arg), 65535)
           /\ mathOut[1] \in 0..65535

\* 254.875 lies in (max - 0.5, max]
C10_Witness ==
    /\ Called("ClampUint8")
    /\ mathIn.arg = Rat(2039, 8)
    /\ mathOut[1] = 255

(***************************************************************************)
(* Properties of NewResizer and Resize, under Spec.                        *)
(***************************************************************************)
InRange(v) == v >= 1 /\ v <= 65535

\* target / source within [1/16, 16]
RatioWithin(target, source) == target <= 16 * source /\ 16 * target >= source

SourceInRange == ~src.nil /\ InRange(src.W) /\ InRange(src.H)

TargetInRange == InRange(cfg.TargetWidth) /\ InRange(cfg.TargetHeight)

RatiosWithin ==
    /\ RatioWithin(cfg.TargetWidth, src.W)
    /\ RatioWithin(cfg.TargetHeight, src.H)

\* Resize was called and has returned
Resized == pc = "done" /\ resizer # None

Rejected == ret[1].err # NoError

\* the channels of At(x, y).RGBA() a path reads, and what it divides them by
PathChannels(kind) == IF kind \in {"RGBA", "RGBA64"} THEN <<1, 2, 3, 4>> ELSE <<1>>
PathScale(kind) == IF kind \in {"RGBA", "Gray"} THEN 256 ELSE 1

\* the source pixel (px, py) as the path reads it
SourcePixel(px, py) ==
    [k \in 1..Len(PathChannels(path)) |->
        At(src, px, py)[PathChannels(path)[k]] \div PathScale(path)]

\* the destination pixels the loop has written so far
Written ==
    {cell \in DOMAIN dst[1].Pix : cell[2] < y \/ (cell[2] = y /\ cell[1] < x)}

\* C1: for a source and a target with every side within [1, 65535] and both
\* ratios within [1/16, 16], Resize succeeds and returns a buffer of exactly
\* the target width and height, of the kind of the dispatch path taken.
C1_ExactDimensions ==
    (SourceInRange /\ TargetInRange /\ RatiosWithin) =>
        /\ pc \in {"loop", "done"} =>
               /\ dst # None
               /\ dst[1].W = cfg.TargetWidth
               /\ dst[1].H = cfg.TargetHeight
               /\ DOMAIN dst[1].Pix = (0..cfg.TargetWidth - 1) \X (0..cfg.TargetHeight - 1)
               /\ dst[1].Kind = Dispatch(src.Model)
               /\ path = Dispatch(src.Model)
        /\ pc = "done" =>
               /\ ~Rejected
               /\ ret[1].img = dst
               /\ samples = cfg.TargetWidth * cfg.TargetHeight

C1_Witness ==
    /\ Resized
    /\ ~Rejected
    /\ path = "Gray16"
    /\ src.W = 1 /\ src.H = 1
    /\ ret[1].img[1].W = 16 /\ ret[1].img[1].H = 1

\* C2 (as stated): Resize rejects exactly when a ratio lies outside [1/16, 16],
\* as an invalid-ratio failure, before any allocation and any sampling.
C2_Original ==
    (Resized /\ ~src.nil) =>
        /\ Rejected <=> ~RatiosWithin
        /\ Rejected => /\ ret[1].err.msg[1] = "invalid resize ratio"
                       /\ dst = None
                       /\ samples = 0

\* C2 (amended): for a source that is not nil and whose sides are within
\* [1, 65535], Resize rejects exactly when a ratio lies outside [1/16, 16], as
\* an invalid-ratio failure (an invalid-dimension error), with no buffer
\* allocated and no pixel sampled.  Any other source is rejected whatever the
\* ratios, and not as an invalid-ratio failure.
C2_RatioRejection ==
    Resized =>
        /\ SourceInRange =>
               /\ Rejected <=> ~RatiosWithin
               /\ Rejected => /\ ret[1].err.is = ErrInvalidDimension
                              /\ ret[1].err.msg[1] = "invalid resize ratio"
                              /\ ret[1].img = None
                              /\ dst = None
                              /\ path = Nil
                              /\ samples = 0
        /\ ~SourceInRange =>
               /\ Rejected
               /\ ret[1].err.msg[1] # "invalid resize ratio"
               /\ dst = None
               /\ samples = 0

C2_Witness ==
    /\ Resized
    /\ ~src.nil
    /\ src.W = 10 /\ src.H = 10
    /\ cfg.TargetWidth = 170 /\ cfg.TargetHeight = 170
    /\ ret[1].err.msg[1] = "invalid resize ratio"
    /\ dst = None
    /\ samples = 0

\* C3: ValidateDimensions fails, with an invalid-dimension error, exactly when
\* a side is outside [1, 65535]; NewResizer then returns that error and no
\* Resizer, so a Resizer holds target sides within [1, 65535]; Resize fails
\* the same way on a source with such a side.
C3_DimensionRange ==
    /\ pc # "start" =>
           /\ resizer = None <=> ~TargetInRange
           /\ resizer = None =>
                  /\ pc = "done"
                  /\ ret[1].img = None
                  /\ ret[1].err.is = ErrInvalidDimension
                  /\ ret[1].err.msg[1] = "invalid config"
           /\ resizer # None =>
                  /\ InRange(resizer[1].config.TargetWidth)
                  /\ InRange(resizer[1].config.TargetHeight)
                  /\ resizer[1].config.TargetWidth = cfg.TargetWidth
                  /\ resizer[1].config.TargetHeight = cfg.TargetHeight
    /\ (Resized /\ ~src.nil) =>
           /\ (Rejected /\ ret[1].err.msg[1] = "invalid source dimensions")
                  <=> ~(InRange(src.W) /\ InRange(src.H))
           /\ ~(InRange(src.W) /\ InRange(src.H)) => ret[1].err.is = ErrInvalidDimension

C3_Witness ==
    /\ pc = "done"
    /\ cfg.TargetWidth = 0 /\ cfg.TargetHeight = 100
    /\ resizer = None
    /\ ret[1].err.is = ErrInvalidDimension

\* every pixel of the source is the same
Solid(img) ==
    /\ ~img.nil
    /\ \A cell \in TileCells :
           (cell[1] < img.W /\ cell[2] < img.H) => img.Tile[cell] = img.Tile[<<0, 0>>]

\* the four weights CubicWeight(i - 1 - d), i = 0..3, add up to 1
TapsAddToOne(dd) ==
    Taps(dd)[1] + Taps(dd)[2] + Taps(dd)[3] + Taps(dd)[4] = Tap(0, dd).d

\* C4: for a source whose every pixel has the same channel values, every
\* pixel Resize writes has those values; and for every fractional offset the
\* coordinate mapping produces the four kernel weights add up to 1.
C4_ConstantInput ==
    (pc \in {"loop", "done"} /\ dst # None) =>
        /\ Solid(src) => \A cell \in Written : dst[1].Pix[cell] = SourcePixel(0, 0)
        /\ (pc = "loop" /\ y < cfg.TargetHeight) =>
               /\ TapsAddToOne(Frac(SrcCoord(x, src.W, cfg.TargetWidth)))
               /\ TapsAddToOne(Frac(SrcCoord(y, src.H, cfg.TargetHeight)))

C4_Witness ==
    /\ Resized
    /\ ~Rejected
    /\ src = Image(4, 4, "Gray", SolidTile("Gray"))
    /\ cfg.TargetWidth = 8 /\ cfg.TargetHeight = 8
    /\ \A cell \in (0..7) \X (0..7) : ret[1].img[1].Pix[cell] = <<128>>

\* C5: resizing to the source's own width and height reproduces the source:
\* at every interior pixel every channel of the output is within 1 of the
\* source's.
C5_IdentityReproduces ==
    (Resized /\ ~Rejected /\ cfg.TargetWidth = src.W /\ cfg.TargetHeight = src.H) =>
        \A cell \in DOMAIN dst[1].Pix :
            (cell[1] > 0 /\ cell[1] < src.W - 1 /\ cell[2] > 0 /\ cell[2] < src.H - 1) =>
                \A k \in 1..Len(PathChannels(path)) :
                    Abs(dst[1].Pix[cell][k] - SourcePixel(cell[1], cell[2])[k]) <= 1

\* the values of channel k of the four pixels of a 2x2 source
FourValues(k) == {SourcePixel(cell[1], cell[2])[k] : cell \in TileCells}

\* C6: resizing a 2x2 source to 1x1 computes exactly one pixel, reads all
\* four source pixels and no other coordinate, and every channel of the output
\* lies between the least and the greatest of the four source values of that
\* channel (so within [0, 255] for an 8-bit source).
C6_TwoByTwoToOne ==
    (Resized /\ ~src.nil /\ src.W = 2 /\ src.H = 2
        /\ cfg.TargetWidth = 1 /\ cfg.TargetHeight = 1) =>
        /\ ~Rejected
        /\ samples = 1
        /\ reads = TileCells
        /\ DOMAIN dst[1].Pix = {<<0, 0>>}
        /\ \A k \in 1..Len(PathChannels(path)) :
               /\ \E v \in FourValues(k) : v <= dst[1].Pix[<<0, 0>>][k]
               /\ \E v \in FourValues(k) : v >= dst[1].Pix[<<0, 0>>][k]
               /\ path \in {"RGBA", "Gray"} => dst[1].Pix[<<0, 0>>][k] \in 0..255

\* one bright pixel at (0, 0), three dark ones: weight 1/324 of 255, rounded
C6_Witness ==
    /\ Resized
    /\ src = Image(2, 2, "Gray",
                   [cell \in TileCells |->
                       IF cell = <<0, 0>> THEN Grey8(255) ELSE Grey8(0)])
    /\ cfg.TargetWidth = 1 /\ cfg.TargetHeight = 1
    /\ samples = 1
    /\ reads = TileCells
    /\ dst[1].Pix[<<0, 0>>] = <<1>>

(***************************************************************************)
(* Properties of index clamping and kernel bounds, under SpecMath.         *)
(***************************************************************************)
\* C11: GetSafeIndex(i, n) with n >= 1 returns 0 for i < 0, n - 1 for i >= n
\* and i itself for 0 <= i < n; consequently every coordinate a sample
\* function hands to src.At while gathering its 4x4 window lies inside
\* [0, width) x [0, height).
C11_SafeIndex ==
    /\ Called("GetSafeIndex") =>
           LET i == mathIn.arg.index
               n == mathIn.arg.maxIndex
           IN  /\ i < 0 => mathOut[1] = 0
               /\ i >= n => mathOut[1] = n - 1
               /\ (0 <= i /\ i < n) => mathOut[1] = i
    /\ Called("sampleGray") =>
           /\ mathOut[1].reads \subseteq
                  (0..mathIn.arg.img.W - 1) \X (0..mathIn.arg.img.H - 1)
           /\ mathOut[1].err = Nil => mathOut[1].reads # {}

\* the window of the last pixel of a 3x3 image: indices 1..4 on both axes,
\* read at 1 and 2 only
C11_Witness ==
    /\ Called("sampleGray")
    /\ mathIn.arg.img.W = 3 /\ mathIn.arg.img.H = 3
    /\ mathIn.arg.x = Rat(5, 2) /\ mathIn.arg.y = Rat(5, 2)
    /\ mathOut[1].err = Nil
    /\ mathOut[1].reads = (1..2) \X (1..2)

\* C12: CalculateKernelBounds(center, size) fails with the invalid-coordinate
\* error exactly when center < 0 or center >= size; otherwise it returns
\* start = floor(center) - 1 and end = floor(center) + 3, four indices, not cut
\* at the edges of the image.
C12_KernelBounds ==
    Called("CalculateKernelBounds") =>
        LET c == mathIn.arg.center
            size == mathIn.arg.maxBound
            floor == CHOOSE f \in -3 .. size + 3 : f * c.d <= c.n /\ c.n < (f + 1) * c.d
            out == mathOut[1]
        IN  /\ out.err # Nil <=> (c.n < 0 \/ c.n >= size * c.d)
            /\ out.err # Nil => out.err = ErrInvalidCoordinate
            /\ out.err = Nil => /\ out.start = floor - 1
                                /\ out.end = floor + 3
                                /\ out.end - out.start = 4

\* a centre in the first pixel of a one-pixel axis: the span is -1..3
C12_Witness ==
    /\ Called("CalculateKernelBounds")
    /\ mathIn.arg.center = Rat(1, 2)
    /\ mathIn.arg.maxBound = 1
    /\ mathOut[1] = [start |-> -1, end |-> 3, err |-> Nil]

(***************************************************************************)
(* package validator: paths                                                *)
(***************************************************************************)
MaxFileSize == 1073741824
maxPathLength == 4096

ErrInvalidPath == "invalid file path"

\* a path: its length in bytes and what filepath.Ext returns for it
Path(len, ext) == [Len |-> len, Ext |-> ext]

ValidatePath(p) ==
    IF p.Len = 0
    THEN [is |-> ErrInvalidPath, msg |-> <<ErrInvalidPath, "path cannot be empty">>]
    ELSE IF p.Len > maxPathLength
    THEN [is |-> ErrInvalidPath, msg |-> <<ErrInvalidPath, "path exceeds maximum length">>]
    ELSE NoError

(***************************************************************************)
(* package imageio                                                         *)
(***************************************************************************)
ErrUnsupportedFormat == "unsupported image format"
ErrFileOpen == "failed to open file"
ErrFileCreate == "failed to create file"
ErrDecode == "failed to decode image"
ErrEncode == "failed to encode image"

SupportedFormats == {".jpg", ".jpeg", ".png", ".bmp", ".tiff", ".tif", ".webp"}

\* strings.ToLower on the extensions used here
ToLower(ext) ==
    CASE ext = ".PNG" -> ".png"
      [] ext = ".JPG" -> ".jpg"
      [] ext = ".WEBP" -> ".webp"
      [] OTHER -> ext

\* the codec the switch on the extension selects (Nil: the default case)
Decoder(ext) ==
    CASE ext \in {".jpg", ".jpeg"} -> "jpeg"
      [] ext = ".png" -> "png"
      [] ext = ".bmp" -> "bmp"
      [] ext \in {".tiff", ".tif"} -> "tiff"
      [] ext = ".webp" -> "webp"
      [] OTHER -> Nil

Encoder(ext) ==
    CASE ext \in {".jpg", ".jpeg"} -> "jpeg"
      [] ext = ".png" -> "png"
      [] ext = ".bmp" -> "bmp"
      [] ext \in {".tiff", ".tif"} -> "tiff"
      [] OTHER -> Nil

\* a file: its size in bytes, the format of its bytes, the image they encode
File(size, format, img) == [size |-> size, format |-> format, img |-> img]

\* what os.Create leaves, and what a failed encoder leaves behind it
EmptyFile == File(0, "empty", NilImage)
PartialFile == File(1, "partial", NilImage)

\* fmt.Errorf("%w: %v", sentinel, detail)
IoError(sentinel, detail) == [is |-> sentinel, msg |-> <<sentinel, detail>>]

\* LoadImage(path) in the filesystem w: the image (None: nil) and the error
LoadImage(p, w) ==
    IF ValidatePath(p) # NoError
    THEN [img |-> None, err |-> IoError(ErrFileOpen, ErrInvalidPath)]
    ELSE IF w.input = None
    THEN [img |-> None, err |-> IoError(ErrFileOpen, "no such file")]
    ELSE IF w.input[1].size > MaxFileSize
    THEN [img |-> None, err |-> IoError(ErrFileOpen, "file too large")]
    ELSE IF Decoder(ToLower(p.Ext)) = Nil
    THEN [img |-> None, err |-> IoError(ErrUnsupportedFormat, ToLower(p.Ext))]
    ELSE IF w.input[1].format # Decoder(ToLower(p.Ext))
    THEN [img |-> None, err |-> IoError(ErrDecode, "decode")]
    ELSE [img |-> Some(w.input[1].img), err |-> NoError]

\* SaveImage(path, img) on the output directory and file now (the record
\* [outDir, outFile]) in the environment env ("ok", "readonly": nothing can be
\* created, "full": nothing can be written): the error and the directory and
\* file it leaves
SaveImage(p, img, now, env) ==
    LET made == [now EXCEPT !.outDir = TRUE]
        created == [made EXCEPT !.outFile = Some(EmptyFile)]
    IN  IF ValidatePath(p) # NoError
        THEN [err |-> IoError(ErrFileCreate, ErrInvalidPath), fs |-> now]
        ELSE IF img = None
        THEN [err |-> IoError(ErrFileCreate, "image is nil"), fs |-> now]
        ELSE IF ValidateDimensions(img[1].W, img[1].H) # NoError
        THEN [err |-> IoError(ErrFileCreate, "invalid dimensions"), fs |-> now]
        \* os.MkdirAll(dir, 0755)
        ELSE IF ~now.outDir /\ env = "readonly"
        THEN [err |-> IoError(ErrFileCreate, "cannot create directory"), fs |-> now]
        \* os.Create(path)
        ELSE IF env = "readonly"
        THEN [err |-> IoError(ErrFileCreate, "create"), fs |-> made]
        \* the switch on the extension, the file already open
        ELSE IF Encoder(ToLower(p.Ext)) = Nil
        THEN [err |-> IoError(ErrUnsupportedFormat, ToLower(p.Ext)), fs |-> created]
        ELSE IF env = "full"
        THEN [err |-> IoError(ErrEncode, "encode"),
              fs |-> [created EXCEPT !.outFile = Some(PartialFile)]]
        ELSE [err |-> NoError,
              fs |-> [created EXCEPT !.outFile =
                          Some(File(img[1].W * img[1].H, Encoder(ToLower(p.Ext)), img[1]))]]

(***************************************************************************)
(* The command line: run(cfg) on a configuration parseFlags accepted, one  *)
(* call per step; NewResizer and Resize are the steps of the caller above. *)
(***************************************************************************)
\* the Config parseFlags returns
CliConfig(in, out, w, h) == [InputPath |-> in, OutputPath |-> out, Width |-> w, Height |-> h]

RunSources == {<<2, 2>>, <<40, 1>>}

RunTargets == {<<1, 1>>, <<2, 1>>, <<2, 2>>}

\* the input file: none, too large, not an image, or an image as PNG or WebP
RunInputs ==
    {None, Some(File(1024, "garbage", NilImage)),
     Some(File(MaxFileSize + 1, "png", Image(2, 2, "NRGBA", CheckerTile("NRGBA")))),
     Some(File(1024, "webp", Image(2, 2, "YCbCr", CheckerTile("YCbCr"))))}
    \cup {Some(File(MaxFileSize, "png", Image(z[1], z[2], m, CheckerTile(m)))) :
              z \in RunSources, m \in {"NRGBA", "Gray16"}}

RunInputExts == {".png", ".PNG", ".webp", ".gif"}

RunOutputExts == {".png", ".JPG", ".webp", ".gif", ""}

\* the output path before the run: no directory, a directory, a file in it
RunOutputs ==
    {[outDir |-> FALSE, outFile |-> None], [outDir |-> TRUE, outFile |-> None],
     [outDir |-> TRUE,
      outFile |-> Some(File(4, "png", Image(2, 2, "RGBA", SolidTile("RGBA"))))]}

RunInit ==
    /\ \E ie \in RunInputExts, oe \in RunOutputExts, t \in RunTargets :
           cli = Some(CliConfig(Path(9, ie), Path(4096, oe), t[1], t[2]))
    /\ \E f \in RunInputs, o \in RunOutputs, env \in {"ok", "readonly", "full"} :
        /\ world = Some([input |-> f, env |-> env, fs |-> o])
        /\ fs = Some(o)
    /\ runRet = None
    /\ src = NilImage
    /\ cfg = Config(0, 0, 0)
    /\ resizer = None
    /\ pc = "run"
    /\ path = Nil
    /\ dst = None
    /\ x = 0
    /\ y = 0
    /\ reads = {}
    /\ samples = 0
    /\ writes = NoWrites
    /\ ret = None
    /\ MathIdle

\* run returns err from the step named
RunReturns(step, err) ==
    /\ runRet' = Some([err |-> err, step |-> step])
    /\ pc' = "exit"

\* img, err := imageio.LoadImage(cfg.InputPath) and the nil check
RunLoad ==
    /\ pc = "run"
    /\ LET l == LoadImage(cli[1].InputPath, world[1])
       IN  IF l.err # NoError
           THEN /\ RunReturns("load", Wrap("failed to load image", l.err))
                /\ src' = src
           ELSE IF l.img = None
           THEN /\ RunReturns("load", [is |-> Nil, msg |-> <<"loaded image is nil">>])
                /\ src' = src
           ELSE /\ src' = l.img[1]
                /\ pc' = "ratio"
                /\ runRet' = runRet
    /\ UNCHANGED <<cfg, resizer, path, dst, x, y, reads, samples, writes, ret,
                   cli, world, fs, mathVars>>

\* Faulty variant: the ratio check of run left out
RunRatioErrorIgnored(srcWidth, srcHeight, width, height) == NoError

\* the error run returns from its ratio check, NoError when it goes on
RunRatioError(srcWidth, srcHeight, width, height) ==
    IF ValidateResizeRatio(srcWidth, srcHeight, width, height) # NoError
    THEN Wrap("invalid resize parameters",
              ValidateResizeRatio(srcWidth, srcHeight, width, height))
    ELSE NoError

\* validator.ValidateResizeRatio(srcWidth, srcHeight, cfg.Width, cfg.Height),
\* then resizerCfg := resizer.Config{...}
RunValidateRatio ==
    /\ pc = "ratio"
    /\ LET e == RunRatioError(src.W, src.H, cli[1].Width, cli[1].Height)
       IN  IF e # NoError
           THEN /\ RunReturns("ratio", e)
                /\ cfg' = cfg
           ELSE /\ cfg' = Config(cli[1].Width, cli[1].Height, 100)
                /\ pc' = "start"
                /\ runRet' = runRet
    /\ UNCHANGED <<src, resizer, path, dst, x, y, reads, samples, writes, ret,
                   cli, world, fs, mathVars>>

\* the checks of run on what NewResizer and Resize returned, up to the
\* comparison of the output dimensions
RunVerify ==
    /\ pc = "done"
    /\ cli # None
    /\ IF ret[1].err # NoError /\ resizer = None
       THEN RunReturns("resizer", Wrap("failed to create resizer", ret[1].err))
       ELSE IF ret[1].err # NoError
       THEN RunReturns("resize", Wrap("resize failed", ret[1].err))
       ELSE IF ret[1].img = None
       THEN RunReturns("resize", [is |-> Nil, msg |-> <<"resized image is nil">>])
       ELSE IF ret[1].img[1].W # cli[1].Width \/ ret[1].img[1].H # cli[1].Height
       THEN RunReturns("verify", [is |-> Nil, msg |-> <<"output dimensions mismatch">>])
       ELSE /\ pc' = "save"
            /\ runRet' = runRet
    /\ UNCHANGED <<engineVarsButPc, cli, world, fs, mathVars>>

\* imageio.SaveImage(cfg.OutputPath, resizedImg), and the return of run
RunSave ==
    /\ pc = "save"
    /\ LET sv == SaveImage(cli[1].OutputPath, ret[1].img, fs[1], world[1].env)
       IN  /\ fs' = Some(sv.fs)
           /\ IF sv.err # NoError
              THEN RunReturns("save", Wrap("failed to save image", sv.err))
              ELSE RunReturns("ok", NoError)
    /\ UNCHANGED <<engineVarsButPc, cli, world, mathVars>>

RunNext ==
    \/ RunLoad
    \/ RunValidateRatio
    \/ CallNewResizer
    \/ ResizeEnter
    \/ ResizeStep
    \/ ResizeReturn
    \/ RunVerify
    \/ RunSave

SpecRun == RunInit /\ [][RunNext]_vars

(***************************************************************************)
(* The loop body run for the destination cells in any order: NewResizer,   *)
(* Resize up to the loop, then the body of the inner loop (map, sample,    *)
(* Set) for any cell not yet written, in every order; this covers every    *)
(* traversal order and every interleaving of workers that own disjoint     *)
(* rows.                                                                   *)
(***************************************************************************)
OrderSources == {<<2, 2>>, <<3, 3>>}

OrderTargets == {<<1, 1>>, <<2, 2>>, <<3, 2>>}

OrderRequests ==
    {Request(Image(z[1], z[2], m, CheckerTile(m)), Config(t[1], t[2], 100)) :
        z \in OrderSources, m \in ColorModels, t \in OrderTargets}

OrderInit ==
    /\ \E req \in OrderRequests :
        /\ src = req.src
        /\ cfg = req.cfg
    /\ resizer = None
    /\ pc = "start"
    /\ path = Nil
    /\ dst = None
    /\ x = 0
    /\ y = 0
    /\ reads = {}
    /\ samples = 0
    /\ writes = NoWrites
    /\ ret = None
    /\ MathIdle
    /\ CliIdle

\* the body of the inner loop for one cell that has not been written
FillAny ==
    /\ pc = "loop"
    /\ \E cell \in DOMAIN writes :
        /\ writes[cell] = 0
        /\ LET tw == resizer[1].config.TargetWidth
               th == resizer[1].config.TargetHeight
               s == SampleOn(path, src, SrcCoord(cell[1], src.W, tw),
                             SrcCoord(cell[2], src.H, th), src.W, src.H)
           IN  /\ samples' = samples + 1
               /\ reads' = s.reads
               /\ IF s.err # Nil
                  THEN /\ ret' = Some([img |-> None,
                                       err |-> [is |-> s.err,
                                                msg |-> <<"sampling failed", s.err>>]])
                       /\ pc' = "done"
                       /\ UNCHANGED <<dst, writes>>
                  ELSE /\ dst' = Some([dst[1] EXCEPT !.Pix[cell] = s.px])
                       /\ writes' = [writes EXCEPT ![cell] = @ + 1]
                       /\ UNCHANGED <<ret, pc>>
    /\ UNCHANGED <<src, cfg, resizer, path, x, y, mathVars, cliVars>>

\* return dst, nil once every cell has been written
FillReturn ==
    /\ pc = "loop"
    /\ \A cell \in DOMAIN writes : writes[cell] = 1
    /\ ret' = Some([img |-> dst, err |-> NoError])
    /\ pc' = "done"
    /\ UNCHANGED <<src, cfg, resizer, path, dst, x, y, reads, samples, writes, mathVars, cliVars>>

OrderNext ==
    \/ CallNewResizer
    \/ ResizeEnter
    \/ FillAny
    \/ FillReturn

SpecAnyOrder == OrderInit /\ [][OrderNext]_vars

\* the buffer the nested loops of the code leave when run from (col, row) on
\* buf: rows top to bottom, each row left to right
RECURSIVE Scan(_, _, _)
Scan(buf, col, row) ==
    LET tw == resizer[1].config.TargetWidth
        th == resizer[1].config.TargetHeight
    IN  IF row >= th
        THEN buf
        ELSE Scan([buf EXCEPT !.Pix[<<col, row>>] =
                       SampleOn(path, src, SrcCoord(col, src.W, tw),
                                SrcCoord(row, src.H, th), src.W, src.H).px],
                  NextX(col, tw), NextY(col, row, tw))

(***************************************************************************)
(* Properties of the pixel loop.                                           *)
(***************************************************************************)
\* the pixel a fresh buffer holds at every cell
ZeroPixel == [k \in 1..Len(PathChannels(path)) |-> 0]

\* C13 (under SpecMethods): sampling fails exactly when it must (the source
\* has no pixel to read), and when it fails the method stops at that pixel and
\* returns the error and no image: the buffer it allocated is not returned,
\* the failed pixel is not written, no later pixel is sampled.
C13_SamplingFailureAborts ==
    pc = "done" =>
        /\ Rejected <=> (src.W < 1 \/ src.H < 1)
        /\ Rejected =>
               /\ ret[1].img = None
               /\ ret[1].err.msg[1] = "sampling failed"
               /\ ret[1].err.is = ErrInvalidCoordinate
               /\ dst # None
               /\ writes[<<x, y>>] = 0
               /\ dst[1].Pix[<<x, y>>] = ZeroPixel
               /\ samples = 1 + y * cfg.TargetWidth + x
               /\ \A cell \in DOMAIN writes : writes[cell] = IF cell \in Written THEN 1 ELSE 0

C13_Witness ==
    /\ pc = "done"
    /\ Rejected
    /\ src.W = 2 /\ src.H = 0
    /\ path = "RGBA64"
    /\ cfg.TargetWidth = 2 /\ cfg.TargetHeight = 2
    /\ dst # None
    /\ ret[1].img = None
    /\ samples = 1

\* the cells of the destination
TargetCells == (0..cfg.TargetWidth - 1) \X (0..cfg.TargetHeight - 1)

\* C14 (state part): each destination cell is written once when the loop
\* reaches it and never again: the cells behind the loop position have one
\* write, the others none, and all have exactly one when Resize returns.
WrittenOnce ==
    (pc \in {"loop", "done"} /\ dst # None) =>
        /\ DOMAIN writes = TargetCells
        /\ \A cell \in TargetCells : writes[cell] = IF cell \in Written THEN 1 ELSE 0
        /\ (pc = "done" /\ ~Rejected) => \A cell \in TargetCells : writes[cell] = 1

\* C14: during a Resize the source is never written (no step changes it), and
\* every destination cell is written exactly once by the time Resize returns.
C14_WriteOnce == []WrittenOnce /\ [][src' = src]_vars

C14_Witness ==
    /\ Resized
    /\ ~Rejected
    /\ path = "Gray"
    /\ cfg.TargetWidth = 3 /\ cfg.TargetHeight = 3
    /\ src.W = 2 /\ src.H = 3
    /\ \A cell \in (0..2) \X (0..2) : writes[cell] = 1

\* C15: for a request that passed Resize's checks, at every loop position the
\* sample centre lies in [0, srcW) x [0, srcH), the offsets dx and dy lie in
\* [0, 1), the sample there fails neither with the invalid-coordinate nor with
\* the invalid-channel error, and Resize does not fail.
C15_CoordinatesInRange ==
    /\ (pc = "loop" /\ y < cfg.TargetHeight) =>
           LET sx == SrcCoord(x, src.W, cfg.TargetWidth)
               sy == SrcCoord(y, src.H, cfg.TargetHeight)
           IN  /\ 0 <= sx.n /\ sx.n < src.W * sx.d
               /\ 0 <= sy.n /\ sy.n < src.H * sy.d
               /\ 0 <= Frac(sx).n /\ Frac(sx).n < Frac(sx).d
               /\ 0 <= Frac(sy).n /\ Frac(sy).n < Frac(sy).d
               /\ CalculateKernelBounds(sx, src.W).err = Nil
               /\ CalculateKernelBounds(sy, src.H).err = Nil
    /\ pc = "loop" => ret = None
    /\ (Resized /\ ~src.nil /\ ResizeChecks(resizer[1], src) = NoError) =>
           /\ ~Rejected
           /\ samples = cfg.TargetWidth * cfg.TargetHeight

\* the last pixel of a 16-fold enlargement of one pixel: centre 15.5/16, the
\* largest centre the loop computes for a source one pixel wide
C15_Witness ==
    /\ pc = "loop"
    /\ src.W = 1 /\ src.H = 1
    /\ cfg.TargetWidth = 16 /\ cfg.TargetHeight = 1
    /\ x = 15 /\ y = 0
    /\ samples = 15
    /\ SrcCoord(x, src.W, cfg.TargetWidth) = Rat(31, 32)
    /\ ResizeChecks(resizer[1], src) = NoError

SaveCalled == pc = "save" \/ (pc = "exit" /\ runRet[1].step \in {"save", "ok"})

\* the image LoadImage decodes for this command line, when it decodes one
Loadable ==
    /\ world[1].input # None
    /\ world[1].input[1].size <= 1073741824
    /\ ToLower(cli[1].InputPath.Ext) \in SupportedFormats
    /\ world[1].input[1].format = Decoder(ToLower(cli[1].InputPath.Ext))

\* C17: run calls SaveImage only after the load, ValidateResizeRatio,
\* NewResizer and Resize have succeeded and the resized image has the
\* requested width and height; a run whose input cannot be loaded or whose
\* ratio is outside [1/16, 16] returns an error from that step, without
\* creating a resizer or sampling a pixel; and until SaveImage is called the
\* output directory and file are as they were before the run.
C17_SaveAfterAllChecks ==
    /\ SaveCalled =>
           /\ Loadable
           /\ src = world[1].input[1].img
           /\ RatioWithin(cli[1].Width, src.W)
           /\ RatioWithin(cli[1].Height, src.H)
           /\ resizer # None
           /\ ret # None
           /\ ret[1].err = NoError
           /\ ret[1].img # None
           /\ ret[1].img[1].W = cli[1].Width
           /\ ret[1].img[1].H = cli[1].Height
           /\ \A cell \in DOMAIN writes : writes[cell] = 1
    /\ (pc = "exit" /\ ~Loadable) =>
           /\ runRet[1].step = "load"
           /\ runRet[1].err # NoError
           /\ src.nil
    /\ (pc = "exit" /\ Loadable
          /\ ~(RatioWithin(cli[1].Width, src.W) /\ RatioWithin(cli[1].Height, src.H))) =>
           /\ runRet[1].step = "ratio"
           /\ runRet[1].err.is = ErrInvalidDimension
           /\ resizer = None
           /\ dst = None
           /\ samples = 0
    /\ (pc = "exit" /\ ~SaveCalled) => runRet[1].err # NoError
    /\ ~SaveCalled => fs[1] = world[1].fs
    /\ pc = "save" => fs[1] = world[1].fs

\* a run that was rejected for its ratio, the old output file as it was
C17_Witness ==
    /\ pc = "exit"
    /\ runRet[1].step = "ratio"
    /\ src.W = 40
    /\ cli[1].Width = 2
    /\ world[1].fs.outFile # None
    /\ fs[1] = world[1].fs
    /\ world[1].env = "ok"
    /\ ToLower(cli[1].OutputPath.Ext) = ".png"

\* SaveImage has returned, called on a path whose extension has no encoder
UnsupportedSave ==
    /\ pc = "exit"
    /\ runRet[1].step = "save"
    /\ ToLower(cli[1].OutputPath.Ext) \notin {".jpg", ".jpeg", ".png", ".bmp", ".tiff", ".tif"}

\* C18: SaveImage on a path whose extension is not .jpg, .jpeg, .png, .bmp,
\* .tiff or .tif (.webp included) returns the unsupported-format error and
\* leaves the output directory and the output file as they were: nothing
\* created, nothing truncated.
C18_UnsupportedLeavesNothing ==
    (UnsupportedSave /\ world[1].env = "ok") =>
        /\ runRet[1].err.is = ErrUnsupportedFormat
        /\ fs[1] = world[1].fs

====
